---------------------------- MODULE Spec2Model ----------------------------
(***************************************************************************)
(* Model of the shippy pipeline: ingestion of raw vessel messages,         *)
(* nearest-station assignment, the asof merge of vessel reports with       *)
(* weather observations, and the KPI queries computed over the merge.      *)
(*                                                                         *)
(* Tables are sequences of records in row order.  Instants are seconds.    *)
(* Speeds and wind speeds are integers (the code rounds to 3 decimals; a   *)
(* unit of the model is one thousandth).  A call's outcome is a record     *)
(* with err = "none" and the returned rows, or the name of the exception   *)
(* the call raises.                                                        *)
(***************************************************************************)
EXTENDS Integers, Sequences, FiniteSets

VARIABLES
    csv,                    \* rows of the raw messages csv file, in file order
    json_file,              \* station records of the weather json file, in file order
    raw_messages_stations,  \* main.py: table of reports with station coordinates
    weather_data,           \* main.py: table of normalized weather observations
    call,                   \* the last call made and its arguments
    result                  \* what the last call returned or raised

vars == <<csv, json_file, raw_messages_stations, weather_data, call, result>>

----------------------------------------------------------------------------
(* Program constants *)

\* pd.Timedelta('1H'), freq='1H': one hour, in seconds
HOUR == 3600
\* pd.DateOffset(1): one day, in seconds
DAY == 86400
\* a missing value (NaN) in a numeric column
NaN == -1

(* Bounds of the model *)
MaxReports == 2
MaxObs == 2
MaxKpiObs == 2
MaxCsvRows == 3
MaxAssignRows == 2
MaxStations == 3

----------------------------------------------------------------------------
(* Generic helpers *)

Range(s) == {s[i] : i \in 1..Len(s)}

SeqsUpTo(S, n) == UNION {[1..k -> S] : k \in 0..n}

\* ingestion fails on a file without records, so a loaded table has a row
RowsUpTo(S, n) == UNION {[1..k -> S] : k \in 1..n}

Min(S) == CHOOSE x \in S : \A y \in S : x <= y
Max(S) == CHOOSE x \in S : \A y \in S : x >= y

RECURSIVE SumSeq(_)
SumSeq(s) == IF s = <<>> THEN 0 ELSE Head(s) + SumSeq(Tail(s))

\* positions of s, ascending, that satisfy nothing but membership in I
RECURSIVE Pick(_, _, _)
Pick(s, I, i) ==
    IF i > Len(s) THEN <<>>
    ELSE IF i \in I THEN <<s[i]>> \o Pick(s, I, i + 1)
    ELSE Pick(s, I, i + 1)

\* the subsequence of s at the positions I, in order
SubSeqAt(s, I) == Pick(s, I, 1)

NoCall == [op |-> "none", device_id |-> "", date |-> 0, clean_data |-> FALSE]
NoResult == [err |-> "init", rows |-> <<>>]

Ok(rows) == [err |-> "none", rows |-> rows]
Raise(e) == [err |-> e, rows |-> <<>>]


----------------------------------------------------------------------------
(* Vessels, stations and the order of the index *)

Devices == {"st-1a2090", "st-2b3091"}
\* a vessel id that no table holds
UnknownDevice == "st-3c4092"
\* the string order of the vessel ids, as sort_index sees it
DevRank(d) == IF d = "st-1a2090" THEN 1 ELSE IF d = "st-2b3091" THEN 2 ELSE 3

\* (device_id, datetime) index order
KeyLeq(a, b) ==
    \/ DevRank(a.device_id) < DevRank(b.device_id)
    \/ a.device_id = b.device_id /\ a.datetime <= b.datetime

IsSortedByKey(t) == \A i \in 1..Len(t) - 1 : KeyLeq(t[i], t[i + 1])
IsSortedByTime(w) == \A i \in 1..Len(w) - 1 : w[i].timestamp_utc <= w[i + 1].timestamp_utc

----------------------------------------------------------------------------
(* calculator_functions._merge_raw_messages_weather *)

\* raw_messages_stations.xs(device_id, level='device_id'): the rows of one vessel
Xs(table, device_id) ==
    SubSeqAt(table, {i \in DOMAIN table : table[i].device_id = device_id})

\* .loc[date:date + pd.DateOffset(1)] on the datetime index: a label slice,
\* which keeps both end labels
LocWindow(rows, date) ==
    SubSeqAt(rows, {i \in DOMAIN rows :
                       date <= rows[i].datetime /\ rows[i].datetime <= date + DAY})

\* a merge without the by key: any observation may be matched
ByMatchAny(l, r) == TRUE
\* by=['s_lat', 's_lon']: the exact-match key of the merge
ByMatch(l, r) == l.s_lat = r.s_lat /\ l.s_lon = r.s_lon

\* a tolerance that rejects a gap of exactly one hour
WithinToleranceStrict(diff) == diff < HOUR
\* tolerance=pd.Timedelta('1H'): a gap is rejected only if it exceeds the tolerance
WithinTolerance(diff) == diff <= HOUR

\* backward search: the last observation of the key not after the report, if within tolerance
AsofBackward(l, right) ==
    LET cand == {j \in DOMAIN right :
                    right[j].timestamp_utc <= l.datetime /\ ByMatch(l, right[j])}
        found == IF cand = {} THEN 0 ELSE Max(cand)
    IN  IF found # 0 /\ ~WithinTolerance(l.datetime - right[found].timestamp_utc)
        THEN 0 ELSE found

\* forward search: the first observation of the key not before the report, if within tolerance
AsofForward(l, right) ==
    LET cand == {j \in DOMAIN right :
                    right[j].timestamp_utc >= l.datetime /\ ByMatch(l, right[j])}
        found == IF cand = {} THEN 0 ELSE Min(cand)
    IN  IF found # 0 /\ ~WithinTolerance(right[found].timestamp_utc - l.datetime)
        THEN 0 ELSE found

\* a nearest search that takes the forward candidate on a tie
AsofNearestLaterOnTie(l, right) ==
    LET b == AsofBackward(l, right)
        f == AsofForward(l, right)
    IN  IF b # 0 /\ f # 0
        THEN IF l.datetime - right[b].timestamp_utc < right[f].timestamp_utc - l.datetime
             THEN b ELSE f
        ELSE IF b # 0 THEN b ELSE f
\* direction='nearest': the smaller gap of the two searches, the backward one on a tie
AsofNearest(l, right) ==
    LET b == AsofBackward(l, right)
        f == AsofForward(l, right)
    IN  IF b # 0 /\ f # 0
        THEN IF l.datetime - right[b].timestamp_utc <= right[f].timestamp_utc - l.datetime
             THEN b ELSE f
        ELSE IF b # 0 THEN b ELSE f

\* one output row: the report, the weather columns of the matched observation
\* (NaN when there is none) and obs, the position of that observation (0: none)
JoinRow(l, right, j) ==
    [device_id |-> l.device_id, datetime |-> l.datetime,
     lat |-> l.lat, lon |-> l.lon, spd_over_grnd |-> l.spd_over_grnd,
     s_lat |-> l.s_lat, s_lon |-> l.s_lon,
     wind_spd |-> IF j = 0 THEN NaN ELSE right[j].wind_spd,
     obs |-> j]

\* an inner join: the reports without an observation are dropped
MergeAsofInner(left, right) ==
    LET all == [i \in DOMAIN left |-> JoinRow(left[i], right, AsofNearest(left[i], right))]
    IN  SubSeqAt(all, {i \in DOMAIN all : all[i].obs # 0})
\* pd.merge_asof(left, right, ...): a left join, one row per left row, in left order
MergeAsof(left, right) ==
    [i \in DOMAIN left |-> JoinRow(left[i], right, AsofNearest(left[i], right))]

\* _merge_raw_messages_weather(raw_messages_stations, weather_data, device_id, date)
MergeRawMessagesWeather(rms, wd, device_id, date) ==
    IF Xs(rms, device_id) = <<>>
    THEN Raise("KeyError")
    ELSE Ok(MergeAsof(LocWindow(Xs(rms, device_id), date), wd))

----------------------------------------------------------------------------
(* The merge on its own: every table pair within the bounds, every vessel, every date *)

\* the dates a query is made for
Dates == {0, DAY}
QueryDevices == Devices \cup {UnknownDevice}

\* station coordinates (degrees) that reports are assigned to
MergeStations == {<<0, 0>>, <<0, 60>>}
MergeReportTimes == {2 * HOUR, 2 * HOUR + 1800, DAY, DAY + 1}
MergeObsTimes == {HOUR - 1, HOUR, 3 * HOUR, 3 * HOUR + 1}

\* a report lying at its station
MergeReports ==
    {[device_id |-> d, datetime |-> t, lat |-> p[1], lon |-> p[2],
      spd_over_grnd |-> 12000, s_lat |-> p[1], s_lon |-> p[2]] :
        d \in Devices, t \in MergeReportTimes, p \in MergeStations}

MergeObservations ==
    {[timestamp_utc |-> t, s_lat |-> p[1], s_lon |-> p[2], wind_spd |-> 5000] :
        t \in MergeObsTimes, p \in MergeStations}

InitMerge ==
    /\ csv = <<>>
    /\ json_file = <<>>
    /\ raw_messages_stations \in
           {t \in RowsUpTo(MergeReports, MaxReports) : IsSortedByKey(t)}
    /\ weather_data \in
           {w \in RowsUpTo(MergeObservations, MaxObs) : IsSortedByTime(w)}
    /\ call = NoCall
    /\ result = NoResult

\* a call of _merge_raw_messages_weather on the loaded tables
CallMerge ==
    \E d \in QueryDevices, date \in Dates :
        /\ call' = [op |-> "merge", device_id |-> d, date |-> date, clean_data |-> FALSE]
        /\ result' = MergeRawMessagesWeather(raw_messages_stations, weather_data, d, date)
        /\ UNCHANGED <<csv, json_file, raw_messages_stations, weather_data>>

NextMerge == CallMerge

SpecMerge == InitMerge /\ [][NextMerge]_vars

----------------------------------------------------------------------------
(* Properties of the merge *)

Merged == call.op = "merge" /\ result.err = "none"

\* the report columns of an output row
ReportOf(r) ==
    [device_id |-> r.device_id, datetime |-> r.datetime, lat |-> r.lat, lon |-> r.lon,
     spd_over_grnd |-> r.spd_over_grnd, s_lat |-> r.s_lat, s_lon |-> r.s_lon]

\* positions of the reports of the called vessel inside the called date window
InWindow ==
    {i \in DOMAIN raw_messages_stations :
        /\ raw_messages_stations[i].device_id = call.device_id
        /\ call.date <= raw_messages_stations[i].datetime
        /\ raw_messages_stations[i].datetime <= call.date + DAY}

Gap(r, o) == IF r.datetime >= o.timestamp_utc
             THEN r.datetime - o.timestamp_utc ELSE o.timestamp_utc - r.datetime

\* positions of the observations made at the station of row r
SameStation(r) ==
    {j \in DOMAIN weather_data :
        weather_data[j].s_lat = r.s_lat /\ weather_data[j].s_lon = r.s_lon}

\* C1: the merge returns exactly one row per report of the vessel inside the
\* date window (the window of the code, date to date + 1 day, ends included):
\* no report is dropped for want of an observation and none is duplicated.
\* The merge returns whenever the table holds the vessel.
C1_JoinConservation ==
    call.op = "merge" =>
        /\ (result.err = "none") <=>
               (\E i \in DOMAIN raw_messages_stations :
                    raw_messages_stations[i].device_id = call.device_id)
        /\ result.err = "none" =>
               /\ Len(result.rows) = Cardinality(InWindow)
               /\ \A k \in DOMAIN result.rows :
                      \E i \in InWindow : ReportOf(result.rows[k]) = raw_messages_stations[i]
               /\ \A i \in InWindow :
                      Cardinality({k \in DOMAIN result.rows :
                                      ReportOf(result.rows[k]) = raw_messages_stations[i]})
                      = Cardinality({j \in InWindow :
                                      raw_messages_stations[j] = raw_messages_stations[i]})

\* two in-window reports come back as two rows: one without weather, one for
\* which two observations qualify
C1_Witness ==
    /\ Merged
    /\ Len(result.rows) = 2
    /\ \E k \in DOMAIN result.rows : result.rows[k].obs = 0 /\ result.rows[k].wind_spd = NaN
    /\ \E k \in DOMAIN result.rows :
           /\ result.rows[k].obs # 0
           /\ Cardinality({j \in SameStation(result.rows[k]) :
                              Gap(result.rows[k], weather_data[j]) <= HOUR}) = 2

\* C2: a report whose nearest observation of its station is exactly one hour
\* away (before or after) is matched to an observation one hour away; a report
\* whose nearest observation of its station is one hour and one second away has
\* null weather.
C2_ToleranceBoundary ==
    Merged =>
        \A k \in DOMAIN result.rows :
            LET r == result.rows[k]
                gaps == {Gap(r, weather_data[j]) : j \in SameStation(r)}
            IN  /\ (gaps # {} /\ Min(gaps) = HOUR) =>
                       /\ r.obs \in SameStation(r)
                       /\ Gap(r, weather_data[r.obs]) = HOUR
                       /\ r.wind_spd = weather_data[r.obs].wind_spd
                /\ (gaps # {} /\ Min(gaps) = HOUR + 1) =>
                       r.obs = 0 /\ r.wind_spd = NaN

\* one report matched to an observation exactly one hour earlier, another left
\* without weather by an observation one hour and one second later
C2_Witness ==
    /\ Merged
    /\ \E k \in DOMAIN result.rows :
           /\ result.rows[k].obs # 0
           /\ result.rows[k].datetime - weather_data[result.rows[k].obs].timestamp_utc = HOUR
    /\ \E k \in DOMAIN result.rows :
           /\ result.rows[k].obs = 0
           /\ \E j \in SameStation(result.rows[k]) :
                  weather_data[j].timestamp_utc - result.rows[k].datetime = HOUR + 1

\* a report matched to an observation exactly one hour later
C2_WitnessAfter ==
    /\ Merged
    /\ \E k \in DOMAIN result.rows :
           /\ result.rows[k].obs # 0
           /\ weather_data[result.rows[k].obs].timestamp_utc - result.rows[k].datetime = HOUR

\* C3: the observation chosen for a report is one of its station whose time gap
\* to the report is minimal, and when an earlier and a later observation are
\* equally near, the earlier one is chosen.
C3_NearestEarlierOnTie ==
    Merged =>
        \A k \in DOMAIN result.rows :
            LET r == result.rows[k]
            IN  r.obs # 0 =>
                    /\ r.obs \in SameStation(r)
                    /\ \A j \in SameStation(r) :
                           Gap(r, weather_data[r.obs]) <= Gap(r, weather_data[j])
                    /\ (\E j \in SameStation(r) :
                            /\ weather_data[j].timestamp_utc < r.datetime
                            /\ Gap(r, weather_data[j]) = Gap(r, weather_data[r.obs]))
                           => weather_data[r.obs].timestamp_utc < r.datetime

\* a report with an earlier and a later observation equally near, matched to the earlier
C3_Witness ==
    /\ Merged
    /\ \E k \in DOMAIN result.rows :
           LET r == result.rows[k]
           IN  /\ r.obs # 0
               /\ weather_data[r.obs].timestamp_utc < r.datetime
               /\ \E j \in SameStation(r) :
                      /\ weather_data[j].timestamp_utc > r.datetime
                      /\ Gap(r, weather_data[j]) = Gap(r, weather_data[r.obs])

\* a report with a nearer and a farther observation on the same side, matched to the nearer
C3_WitnessNearer ==
    /\ Merged
    /\ \E k \in DOMAIN result.rows :
           LET r == result.rows[k]
           IN  /\ r.obs # 0
               /\ \E j \in SameStation(r) :
                      /\ Gap(r, weather_data[j]) > Gap(r, weather_data[r.obs])
                      /\ Gap(r, weather_data[j]) <= HOUR

\* C4: a row never carries the weather of an observation made at another station
\* than the one assigned to the report, and a report whose station has no
\* observation has null weather.
C4_StationKeyExact ==
    Merged =>
        \A k \in DOMAIN result.rows :
            LET r == result.rows[k]
            IN  /\ r.obs # 0 =>
                       /\ weather_data[r.obs].s_lat = r.s_lat
                       /\ weather_data[r.obs].s_lon = r.s_lon
                       /\ r.wind_spd = weather_data[r.obs].wind_spd
                /\ r.obs = 0 => r.wind_spd = NaN
                /\ SameStation(r) = {} => r.obs = 0 /\ r.wind_spd = NaN

\* a report matched to an observation of its station although an observation of
\* another station is nearer in time
C4_Witness ==
    /\ Merged
    /\ \E k \in DOMAIN result.rows :
           LET r == result.rows[k]
           IN  /\ r.obs # 0
               /\ \E j \in DOMAIN weather_data :
                      /\ j \notin SameStation(r)
                      /\ Gap(r, weather_data[j]) < Gap(r, weather_data[r.obs])

\* a report without weather although an observation of another station is within the hour
C4_WitnessOtherOnly ==
    /\ Merged
    /\ \E k \in DOMAIN result.rows :
           LET r == result.rows[k]
           IN  /\ SameStation(r) = {}
               /\ r.obs = 0
               /\ \E j \in DOMAIN weather_data : Gap(r, weather_data[j]) <= HOUR

----------------------------------------------------------------------------
(* calculator_functions: the KPI queries *)

\* pd.Grouper(level='datetime', freq='1H'): the start of the hour of an instant
HourOf(t) == (t \div HOUR) * HOUR

\* the group keys in index order: by vessel, then by hour
GroupKeyLess(a, b) ==
    \/ DevRank(a[1]) < DevRank(b[1])
    \/ a[1] = b[1] /\ a[2] < b[2]

RECURSIVE SortedKeys(_)
SortedKeys(K) ==
    IF K = {} THEN <<>>
    ELSE LET k == CHOOSE x \in K : \A y \in K \ {x} : GroupKeyLess(x, y)
         IN  <<k>> \o SortedKeys(K \ {k})

\* groupby([Grouper(level='device_id'), Grouper(level='datetime', freq='1H')]):
\* one group per (vessel, hour) pair that occurs in the rows, none for the others
GroupKeys(rows) == {<<rows[i].device_id, HourOf(rows[i].datetime)>> : i \in DOMAIN rows}

GroupOf(rows, k) ==
    SubSeqAt(rows, {i \in DOMAIN rows :
                       rows[i].device_id = k[1] /\ HourOf(rows[i].datetime) = k[2]})

\* .mean() of a group of speeds (thousandths, cut to a whole thousandth)
Mean(vals) == SumSeq(vals) \div Len(vals)

\* .max() and .min() of a group skip NaN; a group of NaN only gives NaN
GroupMax(vals) ==
    LET present == Range(vals) \ {NaN}
    IN  IF present = {} THEN NaN ELSE Max(present)

GroupMin(vals) ==
    LET present == Range(vals) \ {NaN}
    IN  IF present = {} THEN NaN ELSE Min(present)

\* num_ships_in_data(raw_messages)
NumShipsInData(rm) == Cardinality({rm[i].device_id : i \in DOMAIN rm})

\* raw_messages.loc[pd.IndexSlice[:, date:date + pd.DateOffset(1)], :]: the rows
\* of every vessel between the two labels, both included
LocAllWindow(rm, date) ==
    SubSeqAt(rm, {i \in DOMAIN rm :
                     date <= rm[i].datetime /\ rm[i].datetime <= date + DAY})

\* avg_speeds_for_date(raw_messages, date)
AvgSpeedsForDate(rm, date) ==
    LET speeds == LocAllWindow(rm, date)
        keys == SortedKeys(GroupKeys(speeds))
    IN  Ok([n \in DOMAIN keys |->
              LET g == GroupOf(speeds, keys[n])
              IN  [device_id |-> keys[n][1], datetime |-> keys[n][2],
                   spd_over_grnd |-> Mean([i \in DOMAIN g |-> g[i].spd_over_grnd])]])

\* raw_and_weather.loc[pd.IndexSlice[device_id, date:date + pd.DateOffset(1)], :]:
\* a vessel label with no row under it is a KeyError
LocDeviceWindow(rows, device_id, date) ==
    LET sel == LocWindow(Xs(rows, device_id), date)
    IN  IF sel = <<>> THEN Raise("KeyError") ELSE Ok(sel)

\* wind_speed_max_min_for_ship(raw_messages_stations, weather_data, device_id, date)
WindSpeedMaxMinForShip(rms, wd, device_id, date) ==
    LET merged == MergeRawMessagesWeather(rms, wd, device_id, date)
    IN  IF merged.err # "none" THEN merged
        ELSE LET sel == LocDeviceWindow(merged.rows, device_id, date)
             IN  IF sel.err # "none" THEN sel
                 ELSE LET keys == SortedKeys(GroupKeys(sel.rows))
                      IN  Ok([n \in DOMAIN keys |->
                                LET g == GroupOf(sel.rows, keys[n])
                                    w == [i \in DOMAIN g |-> g[i].wind_spd]
                                IN  [device_id |-> keys[n][1], datetime |-> keys[n][2],
                                     max_wind_speed |-> GroupMax(w),
                                     min_wind_speed |-> GroupMin(w)]])

\* full_weather_visual_for_ship(raw_messages_stations, weather_data, device_id, date):
\* the trace of the figure, one point per row, weather_text from the row's columns
FullWeatherVisualForShip(rms, wd, device_id, date) ==
    LET merged == MergeRawMessagesWeather(rms, wd, device_id, date)
    IN  IF merged.err # "none" THEN merged
        ELSE LET sel == LocDeviceWindow(merged.rows, device_id, date)
             IN  IF sel.err # "none" THEN sel
                 ELSE Ok([i \in DOMAIN sel.rows |->
                            [lon |-> sel.rows[i].lon, lat |-> sel.rows[i].lat,
                             weather_text |-> <<sel.rows[i].datetime,
                                                sel.rows[i].wind_spd>>]])

\* frame[col] = vals: the frame gets the column, or has it overwritten
AddColumn(rows, col, vals) ==
    [i \in DOMAIN rows |->
        [f \in DOMAIN rows[i] \cup {col} |-> IF f = col THEN vals[i] ELSE rows[i][f]]]

\* frame.reset_index(drop=True, inplace=True): the index levels are dropped
ResetIndexDrop(rows) ==
    [i \in DOMAIN rows |->
        [f \in DOMAIN rows[i] \ {"device_id", "datetime"} |-> rows[i][f]]]

\* 'Timestamp: ' + ... + 'Wind Speed: ' + ...: the text of each point
WeatherText(rows) ==
    [i \in DOMAIN rows |-> <<rows[i].datetime, rows[i].wind_spd>>]

\* a body whose column assignment lands on the table passed in
FramesAfterVisualInPlace(rms, wd, device_id, date) ==
    [raw_messages_stations |->
         AddColumn(rms, "weather_text", [i \in DOMAIN rms |-> <<rms[i].datetime>>]),
     weather_data |-> wd,
     plot_data |-> <<>>]
\* The frames the names of full_weather_visual_for_ship are bound to when it
\* returns or raises.  raw_and_weather is a new frame (merge_asof, concat);
\* plot_data is the frame its .loc returns, and the two in-place statements
\* (the weather_text column, reset_index) act on plot_data; the arguments are
\* only read.
FramesAfterVisual(rms, wd, device_id, date) ==
    LET merged == MergeRawMessagesWeather(rms, wd, device_id, date)
        sel == IF merged.err = "none"
               THEN LocDeviceWindow(merged.rows, device_id, date) ELSE merged
    IN  [raw_messages_stations |-> rms,
         weather_data |-> wd,
         plot_data |-> IF sel.err = "none"
                       THEN ResetIndexDrop(AddColumn(sel.rows, "weather_text",
                                                     WeatherText(sel.rows)))
                       ELSE <<>>]

----------------------------------------------------------------------------
(* The queries over the tables main.py holds *)

KpiStations == {<<0, 0>>}
KpiReportTimes == {2 * HOUR, 2 * HOUR + 1800, DAY, DAY + 1}
KpiObsTimes == {HOUR, 3 * HOUR}
KpiSpeeds == {12000, 14000}
KpiWinds == {NaN, 5000, 9000}

KpiReports ==
    {[device_id |-> d, datetime |-> t, lat |-> p[1], lon |-> p[2],
      spd_over_grnd |-> v, s_lat |-> p[1], s_lon |-> p[2]] :
        d \in Devices, t \in KpiReportTimes, p \in KpiStations, v \in KpiSpeeds}

KpiObservations ==
    {[timestamp_utc |-> t, s_lat |-> p[1], s_lon |-> p[2], wind_spd |-> w] :
        t \in KpiObsTimes, p \in KpiStations, w \in KpiWinds}

InitKpi ==
    /\ csv = <<>>
    /\ json_file = <<>>
    /\ raw_messages_stations \in
           {t \in RowsUpTo(KpiReports, MaxReports) : IsSortedByKey(t)}
    /\ weather_data \in
           {w \in RowsUpTo(KpiObservations, MaxKpiObs) : IsSortedByTime(w)}
    /\ call = NoCall
    /\ result = NoResult

CallNumShipsInData ==
    /\ call' = [op |-> "num_ships_in_data", device_id |-> "", date |-> 0,
                clean_data |-> FALSE]
    /\ result' = Ok(<<NumShipsInData(raw_messages_stations)>>)
    /\ UNCHANGED <<csv, json_file, raw_messages_stations, weather_data>>

CallAvgSpeedsForDate ==
    \E date \in Dates :
        /\ call' = [op |-> "avg_speeds_for_date", device_id |-> "", date |-> date,
                    clean_data |-> FALSE]
        /\ result' = AvgSpeedsForDate(raw_messages_stations, date)
        /\ UNCHANGED <<csv, json_file, raw_messages_stations, weather_data>>

CallWindSpeedMaxMinForShip ==
    \E d \in QueryDevices, date \in Dates :
        /\ call' = [op |-> "wind_speed_max_min_for_ship", device_id |-> d,
                    date |-> date, clean_data |-> FALSE]
        /\ result' = WindSpeedMaxMinForShip(raw_messages_stations, weather_data, d, date)
        /\ UNCHANGED <<csv, json_file, raw_messages_stations, weather_data>>

CallFullWeatherVisualForShip ==
    \E d \in QueryDevices, date \in Dates :
        /\ call' = [op |-> "full_weather_visual_for_ship", device_id |-> d,
                    date |-> date, clean_data |-> FALSE]
        /\ result' = FullWeatherVisualForShip(raw_messages_stations, weather_data, d, date)
        /\ raw_messages_stations' =
               FramesAfterVisual(raw_messages_stations, weather_data, d, date)
                   .raw_messages_stations
        /\ weather_data' =
               FramesAfterVisual(raw_messages_stations, weather_data, d, date).weather_data
        /\ UNCHANGED <<csv, json_file>>

NextKpi ==
    \/ CallNumShipsInData
    \/ CallAvgSpeedsForDate
    \/ CallWindSpeedMaxMinForShip
    \/ CallFullWeatherVisualForShip

SpecKpi == InitKpi /\ [][NextKpi]_vars

----------------------------------------------------------------------------
(* Properties of the KPI queries *)

\* positions of the reports of any vessel inside the called date window, ends included
InWindowAll ==
    {i \in DOMAIN raw_messages_stations :
        /\ call.date <= raw_messages_stations[i].datetime
        /\ raw_messages_stations[i].datetime <= call.date + DAY}

\* positions of the reports of any vessel with date <= datetime < date + 1 day
InDay ==
    {i \in DOMAIN raw_messages_stations :
        /\ call.date <= raw_messages_stations[i].datetime
        /\ raw_messages_stations[i].datetime < call.date + DAY}

\* the date or vessel filter of the called query selects no row
\* (num_ships_in_data has no filter)
SelectsNoRows ==
    \/ call.op = "avg_speeds_for_date" /\ InWindowAll = {}
    \/ /\ call.op \in {"wind_speed_max_min_for_ship", "full_weather_visual_for_ship"}
       /\ InWindow = {}

\* the observation a report is aligned with carries a wind speed
HasWind(i) ==
    LET j == AsofNearest(raw_messages_stations[i], weather_data)
    IN  j # 0 /\ weather_data[j].wind_spd # NaN

\* C6: a KPI query whose filter selects no row fails with EmptyWindow, and so
\* does wind_speed_max_min_for_ship over records that all have null weather.
C6_EmptyWindowRaised ==
    /\ SelectsNoRows => result.err = "EmptyWindow"
    /\ (/\ call.op = "wind_speed_max_min_for_ship"
        /\ InWindow # {}
        /\ \A i \in InWindow : ~HasWind(i)) => result.err = "EmptyWindow"

\* what the code does instead: an empty table (or a count of 0) is returned
C6_ReturnsEmpty ==
    /\ SelectsNoRows
    /\ call.op = "avg_speeds_for_date"
    /\ result = Ok(<<>>)

\* what the code does instead: a row of NaN per hour is returned
C6_ReturnsNullRows ==
    /\ call.op = "wind_speed_max_min_for_ship"
    /\ InWindow # {}
    /\ \A i \in InWindow : ~HasWind(i)
    /\ result.err = "none"
    /\ result.rows # <<>>
    /\ \A k \in DOMAIN result.rows : result.rows[k].max_wind_speed = NaN

\* C7: avg_speeds_for_date uses only the reports with date <= datetime <
\* date + 1 day: its keys are the (vessel, hour) pairs of those reports and
\* each entry is the mean speed of those reports of that vessel in that hour.
C7_HalfOpenDayWindow ==
    (call.op = "avg_speeds_for_date" /\ result.err = "none") =>
        /\ {<<result.rows[k].device_id, result.rows[k].datetime>> : k \in DOMAIN result.rows}
           = {<<raw_messages_stations[i].device_id,
                HourOf(raw_messages_stations[i].datetime)>> : i \in InDay}
        /\ \A k \in DOMAIN result.rows :
               LET g == SubSeqAt(raw_messages_stations,
                           {i \in InDay :
                               /\ raw_messages_stations[i].device_id = result.rows[k].device_id
                               /\ HourOf(raw_messages_stations[i].datetime)
                                      = result.rows[k].datetime})
               IN  /\ g # <<>>
                   /\ result.rows[k].spd_over_grnd
                          = SumSeq([i \in DOMAIN g |-> g[i].spd_over_grnd]) \div Len(g)

\* C8: wind_speed_max_min_for_ship has an hour only if a report of the vessel
\* in that hour of the window is aligned with an observation that has a wind
\* speed, and avg_speeds_for_date has a (vessel, hour) key only if the vessel
\* has a report in that hour of the window.
C8_NoEmptyOrNullOnlyHours ==
    /\ (call.op = "wind_speed_max_min_for_ship" /\ result.err = "none") =>
           \A k \in DOMAIN result.rows :
               \E i \in InWindow :
                   /\ HourOf(raw_messages_stations[i].datetime) = result.rows[k].datetime
                   /\ HasWind(i)
    /\ (call.op = "avg_speeds_for_date" /\ result.err = "none") =>
           \A k \in DOMAIN result.rows :
               \E i \in InWindowAll :
                   /\ raw_messages_stations[i].device_id = result.rows[k].device_id
                   /\ HourOf(raw_messages_stations[i].datetime) = result.rows[k].datetime

\* the part of C8 about avg_speeds_for_date alone
C8_AvgNoZeroFill ==
    (call.op = "avg_speeds_for_date" /\ result.err = "none") =>
        \A k \in DOMAIN result.rows :
            \E i \in InWindowAll :
                /\ raw_messages_stations[i].device_id = result.rows[k].device_id
                /\ HourOf(raw_messages_stations[i].datetime) = result.rows[k].datetime

----------------------------------------------------------------------------
(* ingest_functions.raw_messages_csv_to_df *)

\* A csv row is [device_id, datetime, raw_message].  raw_message stands for the
\* text of the message: its lat, lon and spd_over_grnd fields, and noise, which
\* says that the text of a numeric field carries characters outside [a-zA-Z0-9,.]

\* .sort_index(): rows ordered by (device_id, datetime), equal keys in file order
RECURSIVE InsertByKey(_, _)
InsertByKey(sorted, row) ==
    IF sorted = <<>> THEN <<row>>
    ELSE IF KeyLeq(Head(sorted), row)
         THEN <<Head(sorted)>> \o InsertByKey(Tail(sorted), row)
         ELSE <<row>> \o sorted

RECURSIVE SortIndex(_)
SortIndex(rows) ==
    IF rows = <<>> THEN <<>>
    ELSE InsertByKey(SortIndex(SubSeq(rows, 1, Len(rows) - 1)), rows[Len(rows)])

\* what drop_duplicates compares: the columns of a row, which the index is not part of
SameContent(a, b) == a.raw_message = b.raw_message

\* raw_messages.drop_duplicates(inplace=True): the first row of each content is kept
DropDuplicates(rows) ==
    SubSeqAt(rows, {i \in DOMAIN rows : \A j \in 1..i - 1 : ~SameContent(rows[j], rows[i])})

\* .str.replace('[^a-zA-Z0-9,.]', '', regex=True)
StripNoise(rows) ==
    [i \in DOMAIN rows |-> [rows[i] EXCEPT !.raw_message.noise = FALSE]]

\* .str.split(',', expand=True), rename: the fields of the message become columns
SplitRawMessage(row) ==
    [device_id |-> row.device_id, datetime |-> row.datetime,
     lat |-> row.raw_message.lat, lon |-> row.raw_message.lon,
     spd_over_grnd |-> row.raw_message.spd_over_grnd]

\* raw_messages_csv_to_df(csv, clean_data)
RawMessagesCsvToDf(file, clean) ==
    LET sorted == SortIndex(file)
        kept == IF clean THEN StripNoise(DropDuplicates(sorted)) ELSE sorted
    IN  IF file = <<>>
        THEN Raise("KeyError")      \* no 'lat' column to convert
        ELSE IF \E i \in DOMAIN kept : kept[i].raw_message.noise
        THEN Raise("ValueError")    \* astype(np.float64, errors='raise')
        ELSE Ok([i \in DOMAIN kept |-> SplitRawMessage(kept[i])])

----------------------------------------------------------------------------
(* ingest_functions.raw_messages_and_nearest_station_to_df *)

\* 4 sin^2(d / 2) for a difference d of a multiple of 60 degrees
Sin2Half4(d) ==
    LET m == ((IF d < 0 THEN 0 - d ELSE d) \div 60) % 6
    IN  IF m = 0 THEN 0 ELSE IF m \in {1, 5} THEN 1 ELSE IF m \in {2, 4} THEN 3 ELSE 4

\* 2 cos(lat) for a latitude of -60, 0 or 60 degrees
Cos2(lat) == IF lat = 0 THEN 2 ELSE 1

\* _dist(lat1, long1, lat2, long2): the haversine distance.  The model computes
\* 16 a, a = sin^2(dlat/2) + cos(lat1) cos(lat2) sin^2(dlon/2), exactly on
\* coordinates that are multiples of 60 degrees; km = 6371 * 2 asin(sqrt(a))
\* grows with a, so the order and the ties of the distances are those of 16 a
Dist(lat1, long1, lat2, long2) ==
    4 * Sin2Half4(lat2 - lat1) + Cos2(lat1) * Cos2(lat2) * Sin2Half4(long2 - long1)

\* the last label at which the minimum occurs
IdxMinLast(d) == Max({i \in DOMAIN d : \A j \in DOMAIN d : d[i] <= d[j]})
\* distances.idxmin(): the first label at which the minimum occurs
IdxMin(d) == Min({i \in DOMAIN d : \A j \in DOMAIN d : d[i] <= d[j]})

\* weather_data_json_to_df(json_file): the station table, lat/lon renamed
WeatherDataJsonToDf(file) ==
    IF file = <<>>
    THEN Raise("KeyError")          \* no 'data' column to convert
    ELSE Ok([i \in DOMAIN file |-> [s_lat |-> file[i].lat, s_lon |-> file[i].lon]])

\* find_nearest_station(lat, long) over the station table
FindNearestStation(weather_stations, lat, long) ==
    LET distances == [i \in DOMAIN weather_stations |->
                        Dist(lat, long, weather_stations[i].s_lat, weather_stations[i].s_lon)]
    IN  weather_stations[IdxMin(distances)]

\* raw_messages_and_nearest_station_to_df(csv, json_file)
RawMessagesAndNearestStationToDf(file, stations) ==
    LET rm == RawMessagesCsvToDf(file, TRUE)
        ws == WeatherDataJsonToDf(stations)
    IN  IF rm.err # "none" THEN rm
        ELSE IF ws.err # "none" THEN ws
        ELSE Ok([i \in DOMAIN rm.rows |->
                   LET st == FindNearestStation(ws.rows, rm.rows[i].lat, rm.rows[i].lon)
                   IN  [device_id |-> rm.rows[i].device_id,
                        datetime |-> rm.rows[i].datetime,
                        lat |-> rm.rows[i].lat, lon |-> rm.rows[i].lon,
                        spd_over_grnd |-> rm.rows[i].spd_over_grnd,
                        s_lat |-> st.s_lat, s_lon |-> st.s_lon]])

----------------------------------------------------------------------------
(* Reading the raw messages file *)

IngestTimes == {0, 1}
IngestMessages ==
    {[noise |-> n, lat |-> 0, lon |-> 0, spd_over_grnd |-> v] :
        n \in BOOLEAN, v \in KpiSpeeds}
IngestRows ==
    {[device_id |-> d, datetime |-> t, raw_message |-> m] :
        d \in Devices, t \in IngestTimes, m \in IngestMessages}

InitIngest ==
    /\ csv \in SeqsUpTo(IngestRows, MaxCsvRows)
    /\ json_file = <<>>
    /\ raw_messages_stations = <<>>
    /\ weather_data = <<>>
    /\ call = NoCall
    /\ result = NoResult

CallRawMessagesCsvToDf ==
    \E clean \in BOOLEAN :
        /\ call' = [op |-> "raw_messages_csv_to_df", device_id |-> "", date |-> 0,
                    clean_data |-> clean]
        /\ result' = RawMessagesCsvToDf(csv, clean)
        /\ UNCHANGED <<csv, json_file, raw_messages_stations, weather_data>>

NextIngest == CallRawMessagesCsvToDf

SpecIngest == InitIngest /\ [][NextIngest]_vars

----------------------------------------------------------------------------
(* Assigning the nearest station *)

AssignPoints == {<<0, 0>>, <<0, 60>>, <<60, 0>>, <<60, 60>>}
StationPoints == {<<0, 0>>, <<0, 60>>, <<60, 0>>, <<0, 120>>}

AssignRows ==
    {[device_id |-> d, datetime |-> 0,
      raw_message |-> [noise |-> FALSE, lat |-> p[1], lon |-> p[2],
                       spd_over_grnd |-> 12000]] :
        d \in Devices, p \in AssignPoints}

StationRecords == {[lat |-> p[1], lon |-> p[2]] : p \in StationPoints}

InitAssign ==
    /\ csv \in SeqsUpTo(AssignRows, MaxAssignRows)
    /\ json_file \in SeqsUpTo(StationRecords, MaxStations)
    /\ raw_messages_stations = <<>>
    /\ weather_data = <<>>
    /\ call = NoCall
    /\ result = NoResult

\* ingest_pipeline: the table of reports with their stations is computed and stored
CallRawMessagesAndNearestStationToDf ==
    /\ call' = [op |-> "raw_messages_and_nearest_station_to_df", device_id |-> "",
                date |-> 0, clean_data |-> TRUE]
    /\ result' = RawMessagesAndNearestStationToDf(csv, json_file)
    /\ raw_messages_stations' =
           IF result'.err = "none" THEN result'.rows ELSE raw_messages_stations
    /\ UNCHANGED <<csv, json_file, weather_data>>

NextAssign == CallRawMessagesAndNearestStationToDf

SpecAssign == InitAssign /\ [][NextAssign]_vars

----------------------------------------------------------------------------
(* Properties of the ingestion *)

Assigned == call.op = "raw_messages_and_nearest_station_to_df" /\ result.err = "none"

\* the distance from the position of row r to the j-th station of the file
DistTo(r, j) == Dist(r.lat, r.lon, json_file[j].lat, json_file[j].lon)

\* C5: every report gets the coordinates of a station at minimal distance from
\* its position, the first such station in the row order of the station table
\* when several are equally near; reports at the same position get the same
\* station, and with a station table and reports the assignment returns.
C5_NearestStationFirstOnTie ==
    call.op = "raw_messages_and_nearest_station_to_df" =>
        /\ (csv # <<>> /\ json_file # <<>>) => result.err = "none"
        /\ result.err = "none" =>
               /\ \A k \in DOMAIN result.rows :
                      \E j \in DOMAIN json_file :
                          /\ result.rows[k].s_lat = json_file[j].lat
                          /\ result.rows[k].s_lon = json_file[j].lon
                          /\ \A j2 \in DOMAIN json_file :
                                 DistTo(result.rows[k], j) <= DistTo(result.rows[k], j2)
                          /\ \A j2 \in 1..j - 1 :
                                 DistTo(result.rows[k], j2) > DistTo(result.rows[k], j)
               /\ \A k1, k2 \in DOMAIN result.rows :
                      (/\ result.rows[k1].lat = result.rows[k2].lat
                       /\ result.rows[k1].lon = result.rows[k2].lon)
                          => /\ result.rows[k1].s_lat = result.rows[k2].s_lat
                             /\ result.rows[k1].s_lon = result.rows[k2].s_lon

\* a report with two equally near stations at different places, given the first;
\* a farther station precedes them in the table
C5_Witness ==
    /\ Assigned
    /\ \E k \in DOMAIN result.rows :
           \E j0, j1, j2 \in DOMAIN json_file :
               /\ j0 < j1 /\ j1 < j2
               /\ json_file[j1] # json_file[j2]
               /\ DistTo(result.rows[k], j0) > DistTo(result.rows[k], j1)
               /\ DistTo(result.rows[k], j1) = DistTo(result.rows[k], j2)
               /\ \A j \in DOMAIN json_file :
                      DistTo(result.rows[k], j1) <= DistTo(result.rows[k], j)
               /\ result.rows[k].s_lat = json_file[j1].lat
               /\ result.rows[k].s_lon = json_file[j1].lon

\* C9: with a station table without rows the assignment fails with EmptyIndex.
C9_EmptyIndexRaised ==
    (/\ call.op = "raw_messages_and_nearest_station_to_df"
     /\ csv # <<>>
     /\ json_file = <<>>) => result.err = "EmptyIndex"

\* what the code does: the call fails all the same, with the exception pandas raises
C9_FailsWithoutTable ==
    (call.op = "raw_messages_and_nearest_station_to_df" /\ json_file = <<>>)
        => /\ result.err \in {"KeyError", "ValueError"}
           /\ result.rows = <<>>
           /\ raw_messages_stations = <<>>

Cleaned == call.op = "raw_messages_csv_to_df" /\ call.clean_data /\ result.err = "none"

\* no two rows of the returned table have the same (device_id, datetime)
C10_KeysUnique ==
    Cleaned =>
        \A k1, k2 \in DOMAIN result.rows :
            (/\ result.rows[k1].device_id = result.rows[k2].device_id
             /\ result.rows[k1].datetime = result.rows[k2].datetime) => k1 = k2

\* every row of the file has a row of the same key and the same content in the
\* returned table
C10_RemovesOnlyRepeatedRows ==
    Cleaned =>
        \A i \in DOMAIN csv :
            \E k \in DOMAIN result.rows :
                result.rows[k] = SplitRawMessage(csv[i])

\* C10: after deduplication no two rows share a (device_id, datetime) key, and
\* a row is removed only if a row of the same key and content is kept.
C10_KeyUniqueAfterDedup == C10_KeysUnique /\ C10_RemovesOnlyRepeatedRows

----------------------------------------------------------------------------
(* main.py: the routes, each calling the queries with their default arguments *)

\* device_id: str = 'st-1a2090'
DefaultDevice == "st-1a2090"
\* date = pd.to_datetime('2019-02-13'): the first day of the model
DefaultDate == 0

\* two instants of one hour of the default day, and one after its window
RouteReportTimes == {2 * HOUR, 2 * HOUR + 1800, DAY + 1}

RouteReports ==
    {[device_id |-> d, datetime |-> t, lat |-> p[1], lon |-> p[2],
      spd_over_grnd |-> 12000, s_lat |-> p[1], s_lon |-> p[2]] :
        d \in Devices, t \in RouteReportTimes, p \in KpiStations}

RouteObservations ==
    {[timestamp_utc |-> t, s_lat |-> p[1], s_lon |-> p[2], wind_spd |-> w] :
        t \in KpiObsTimes, p \in KpiStations, w \in {NaN, 5000}}

\* db.read_table_to_df(...).set_index(...): the tables as loaded at start
InitRoutes ==
    /\ csv = <<>>
    /\ json_file = <<>>
    /\ raw_messages_stations \in
           {t \in RowsUpTo(RouteReports, MaxReports) : IsSortedByKey(t)}
    /\ weather_data \in
           {w \in RowsUpTo(RouteObservations, MaxKpiObs) : IsSortedByTime(w)}
    /\ call = NoCall
    /\ result = NoResult

\* the request served, and prev, the request served before it
Request(op) ==
    [op |-> op, device_id |-> DefaultDevice, date |-> DefaultDate,
     clean_data |-> FALSE, prev |-> call.op]

\* @app.route('/num_ships_in_data')
GetNumShipsInData ==
    /\ call' = Request("get_num_ships_in_data")
    /\ result' = Ok(<<NumShipsInData(raw_messages_stations)>>)
    /\ UNCHANGED <<csv, json_file, raw_messages_stations, weather_data>>

\* @app.route('/avg_speeds_for_date')
GetAvgSpeedsForDate ==
    /\ call' = Request("get_avg_speeds_for_date")
    /\ result' = AvgSpeedsForDate(raw_messages_stations, DefaultDate)
    /\ UNCHANGED <<csv, json_file, raw_messages_stations, weather_data>>

\* @app.route('/wind_speed_max_min')
GetWindSpeedMaxMin ==
    /\ call' = Request("get_wind_speed_max_min")
    /\ result' = WindSpeedMaxMinForShip(raw_messages_stations, weather_data,
                                        DefaultDevice, DefaultDate)
    /\ UNCHANGED <<csv, json_file, raw_messages_stations, weather_data>>

\* @app.route('/full_weather_visual')
GetFullWeatherVisual ==
    LET after == FramesAfterVisual(raw_messages_stations, weather_data,
                                   DefaultDevice, DefaultDate)
    IN  /\ call' = Request("get_full_weather_visual")
        /\ result' = FullWeatherVisualForShip(raw_messages_stations, weather_data,
                                              DefaultDevice, DefaultDate)
        /\ raw_messages_stations' = after.raw_messages_stations
        /\ weather_data' = after.weather_data
        /\ UNCHANGED <<csv, json_file>>

\* @app.route('/'): the four queries in turn; an exception of one ends the request
Root ==
    LET num == Ok(<<NumShipsInData(raw_messages_stations)>>)
        avg == AvgSpeedsForDate(raw_messages_stations, DefaultDate)
        wind == WindSpeedMaxMinForShip(raw_messages_stations, weather_data,
                                       DefaultDevice, DefaultDate)
        after == FramesAfterVisual(raw_messages_stations, weather_data,
                                   DefaultDevice, DefaultDate)
        visual == FullWeatherVisualForShip(after.raw_messages_stations,
                                           after.weather_data,
                                           DefaultDevice, DefaultDate)
    IN  /\ call' = Request("root")
        /\ IF wind.err # "none"
           THEN /\ result' = wind
                /\ UNCHANGED <<raw_messages_stations, weather_data>>
           ELSE /\ result' = IF visual.err # "none" THEN visual
                             ELSE Ok(<<num.rows, avg.rows, wind.rows, visual.rows>>)
                /\ raw_messages_stations' = after.raw_messages_stations
                /\ weather_data' = after.weather_data
        /\ UNCHANGED <<csv, json_file>>

NextRoutes ==
    \/ Root
    \/ GetNumShipsInData
    \/ GetAvgSpeedsForDate
    \/ GetWindSpeedMaxMin
    \/ GetFullWeatherVisual

SpecRoutes == InitRoutes /\ [][NextRoutes]_vars

----------------------------------------------------------------------------
(* Properties of the routes *)

\* what a route answers when its queries run on the tables rms, wd
RouteAnswer(op, rms, wd) ==
    LET num == Ok(<<NumShipsInData(rms)>>)
        avg == AvgSpeedsForDate(rms, DefaultDate)
        wind == WindSpeedMaxMinForShip(rms, wd, DefaultDevice, DefaultDate)
        visual == FullWeatherVisualForShip(rms, wd, DefaultDevice, DefaultDate)
    IN  CASE op = "get_num_ships_in_data" -> num
          [] op = "get_avg_speeds_for_date" -> avg
          [] op = "get_wind_speed_max_min" -> wind
          [] op = "get_full_weather_visual" -> visual
          [] op = "root" -> IF wind.err # "none" THEN wind
                            ELSE IF visual.err # "none" THEN visual
                            ELSE Ok(<<num.rows, avg.rows, wind.rows, visual.rows>>)

\* C11: no request changes a row, a column or a value of raw_messages_stations
\* or of weather_data, so after any sequence of requests both tables are as
\* loaded, and every request is answered with the queries' results over the
\* tables as they are (and were) whatever requests were served before.
C11_QueriesReadOnly ==
    [][/\ raw_messages_stations' = raw_messages_stations
       /\ weather_data' = weather_data
       /\ result' = RouteAnswer(call'.op, raw_messages_stations', weather_data')]_vars

\* the visual query has run its in-place statements on rows of the vessel, and
\* the wind query served after it has answered with rows
C11_Witness ==
    /\ call.op = "get_wind_speed_max_min"
    /\ call.prev = "get_full_weather_visual"
    /\ result.err = "none"
    /\ result.rows # <<>>
    /\ result = RouteAnswer(call.op, raw_messages_stations, weather_data)
    /\ FramesAfterVisual(raw_messages_stations, weather_data,
                         DefaultDevice, DefaultDate).plot_data # <<>>
    /\ \A i \in DOMAIN raw_messages_stations :
           DOMAIN raw_messages_stations[i] =
               {"device_id", "datetime", "lat", "lon", "spd_over_grnd", "s_lat", "s_lon"}

\* the whole page has been served after the visual query
C11_WitnessRoot ==
    /\ call.op = "root"
    /\ call.prev = "get_full_weather_visual"
    /\ result.err = "none"
    /\ Len(result.rows) = 4

=============================================================================
